---- MODULE Spec2Model ----
(***************************************************************************)
(* Model of es51922.py: the decoder of the 9-byte packets of a multimeter  *)
(* built on the Cyrustek ES51922 chipset, its two output formatters and    *)
(* the read loop of main().                                                *)
(*                                                                         *)
(* Conventions.                                                            *)
(*  - A Python exception is a record [exc |-> <type>, at |-> <line>].      *)
(*  - Python None is the string "None", an unbound local is Unbound.       *)
(*  - A float multiplier 1eK of a range tuple is modelled by its exponent  *)
(*    K; a Decimal is [coef, exp] (coef * 10^exp) as decimal.Decimal keeps *)
(*    it; a float is the pair [coef, exp] of the real number it rounds.    *)
(*  - The non-ASCII unit labels are transliterated (Ohm for the omega      *)
(*    sign, u for the micro sign).                                         *)
(***************************************************************************)
EXTENDS Integers, Sequences, FiniteSets, TLC

VARIABLES
    pc,         \* the position of the call or of the read loop
    packet,     \* parse: the 9 bytes given to it (line 163)
    parsed,     \* parse: what it returned or raised (lines 163-253)
    text,       \* output_readable, output_csv: what it returned or raised
    int_type,   \* get_bits: the byte (line 38)
    template,   \* get_bits: the template (line 38)
    bits,       \* get_bits: what it returned or raised (lines 44-55)
    mode,       \* main: args.mode (lines 305-307)
    file_name,  \* main: the local file_name (lines 325-337)
    results,    \* main: the local results (line 351)
    lines,      \* main: the lines read so far (lines 339-341)
    written,    \* main: the records written to the file or to stdout
    log,        \* main: the warnings logged
    last        \* main: how the last iteration of the loop went

vars == <<pc, packet, parsed, text, int_type, template, bits,
          mode, file_name, results, lines, written, log, last>>

(***************************************************************************)
(* Bounds of the model.                                                    *)
(***************************************************************************)
\* high nibbles 0..MaxHigh are tried on the bytes of a packet
MaxHigh == 1
\* main() reads at most MaxLines lines before the input ends
MaxLines == 3

None == "None"
Unbound == [py |-> "unbound"]
NoError == "none"

Raise(exc, at) == [exc |-> exc, at |-> at]

RECURSIVE Pow10(_)
Pow10(k) == IF k = 0 THEN 1 ELSE 10 * Pow10(k - 1)

RECURSIVE Pow2(_)
Pow2(k) == IF k = 0 THEN 1 ELSE 2 * Pow2(k - 1)

LowNibble(byte) == byte % 16

(***************************************************************************)
(* test_bit, get_bits                                                      *)
(***************************************************************************)
test_bit_shifted(int_type_, offset) == (int_type_ \div Pow2(offset + 1)) % 2 = 1

test_bit(int_type_, offset) == (int_type_ \div Pow2(offset)) % 2 = 1

\* a template slot: a fixed bit (0 or 1) or the name of a flag
Fixed(b) == [fixed |-> TRUE, bit |-> b, name |-> ""]
Name(n) == [fixed |-> FALSE, bit |-> 0, name |-> n]

BoolAsInt(b) == IF b THEN 1 ELSE 0

\* the loop body of get_bits for i, ..., 3, on the dictionary built so far
RECURSIVE get_bits_loop(_, _, _, _)
get_bits_loop(int_type_, template_, i, bits_) ==
    IF i = 4 THEN [exc |-> NoError, bits |-> bits_]
    ELSE LET bit == test_bit(int_type_, i)
             bit_name == template_[(3 - i) + 1]
         IN  IF bit_name.fixed /\ BoolAsInt(bit) = bit_name.bit
               THEN get_bits_loop(int_type_, template_, i + 1, bits_)
             ELSE IF bit_name.fixed
               THEN Raise("ValueError", 52)
             ELSE get_bits_loop(int_type_, template_, i + 1,
                                (bit_name.name :> bit) @@ bits_)

get_bits_unchecked(int_type_, template_) ==
    [exc |-> NoError,
     bits |-> [n \in {template_[j].name : j \in {k \in 1..4 : ~template_[k].fixed}} |->
                 \E j \in 1..4 : template_[j].name = n /\ test_bit(int_type_, 4 - j)]]

get_bits(int_type_, template_) == get_bits_loop(int_type_, template_, 0, <<>>)

(***************************************************************************)
(* The range tables: (value_multiplier exponent, dp_digit_position,        *)
(* display_unit)                                                           *)
(***************************************************************************)
RANGE_DIODE == << <<0, 3, "V">> >>

RANGE_FREQUENCY == << <<0, 0, "Hz">>, <<3, 2, "kHz">>, <<3, 1, "kHz">>,
                      <<6, 3, "MHz">>, <<6, 2, "MHz">> >>

RANGE_RESISTANCE == << <<0, 1, "Ohm">>, <<3, 3, "kOhm">>, <<3, 2, "kOhm">>,
                       <<3, 1, "kOhm">>, <<6, 3, "MOhm">>, <<6, 2, "MOhm">> >>

RANGE_CONTINUITY == << <<0, 1, "Ohm">> >>

RANGE_CAPACITANCE == << <<-9, 3, "nF">>, <<-9, 2, "nF">>, <<-9, 1, "nF">>,
                        <<-6, 3, "uF">>, <<-6, 2, "uF">>, <<-6, 1, "uF">>,
                        <<-3, 3, "mF">> >>

RANGE_CURRENT_10A == << <<0, 2, "A">> >>

RANGE_VOLTAGE == << <<0, 3, "V">>, <<0, 2, "V">>, <<0, 1, "V">>,
                    <<0, 0, "V">>, <<-1, 1, "mV">> >>

RANGE_CURRENT_AUTO_UA == << <<-6, 1, "uA">>, <<-6, 0, "uA">> >>

RANGE_HFE == << <<0, 0, "hFe">> >>

RANGE_CURRENT_AUTO_MA == << <<-3, 2, "mA">>, <<-3, 1, "mA">> >>

\* a range table of FUNCTION: a list, or None
Table(t) == [none |-> FALSE, list |-> t]
NoTable == [none |-> TRUE, list |-> <<>>]

FUNCTION_with_temperature_table ==
    (1 :> <<"diode", Table(RANGE_DIODE), "V">>)
 @@ (2 :> <<"frequency", Table(RANGE_FREQUENCY), "Hz">>)
 @@ (3 :> <<"resistance", Table(RANGE_RESISTANCE), "Ohm">>)
 @@ (4 :> <<"temperature", Table(RANGE_DIODE), "deg">>)
 @@ (5 :> <<"continuity", Table(RANGE_CONTINUITY), "Ohm">>)
 @@ (6 :> <<"capacitance", Table(RANGE_CAPACITANCE), "F">>)
 @@ (9 :> <<"current", Table(RANGE_CURRENT_10A), "A">>)
 @@ (11 :> <<"voltage", Table(RANGE_VOLTAGE), "V">>)
 @@ (13 :> <<"current", Table(RANGE_CURRENT_AUTO_UA), "A">>)
 @@ (14 :> <<"current gain", Table(RANGE_HFE), "">>)
 @@ (15 :> <<"current", Table(RANGE_CURRENT_AUTO_MA), "A">>)

FUNCTION ==
    (1 :> <<"diode", Table(RANGE_DIODE), "V">>)
 @@ (2 :> <<"frequency", Table(RANGE_FREQUENCY), "Hz">>)
 @@ (3 :> <<"resistance", Table(RANGE_RESISTANCE), "Ohm">>)
 @@ (4 :> <<"temperature", NoTable, "deg">>)
 @@ (5 :> <<"continuity", Table(RANGE_CONTINUITY), "Ohm">>)
 @@ (6 :> <<"capacitance", Table(RANGE_CAPACITANCE), "F">>)
 @@ (9 :> <<"current", Table(RANGE_CURRENT_10A), "A">>)
 @@ (11 :> <<"voltage", Table(RANGE_VOLTAGE), "V">>)
 @@ (13 :> <<"current", Table(RANGE_CURRENT_AUTO_UA), "A">>)
 @@ (14 :> <<"current gain", Table(RANGE_HFE), "">>)
 @@ (15 :> <<"current", Table(RANGE_CURRENT_AUTO_MA), "A">>)

STATUS == <<Name("JUDGE"), Name("SIGN"), Name("BATT"), Name("OL")>>

OPTION1 == <<Name("HOLD"), Name("MAX"), Name("MIN"), Fixed(0)>>

OPTION2 == <<Name("DC"), Name("AC"), Name("AUTO"), Fixed(0)>>

(***************************************************************************)
(* parse, step by step                                                     *)
(***************************************************************************)
\* lines 174-179: the three status-bearing bytes, merged into one dictionary
RECURSIVE options_loop(_, _, _, _)
options_loop(d_options, OPTIONS, k, options) ==
    IF k > Len(d_options) THEN [exc |-> NoError, bits |-> options]
    ELSE LET got == get_bits(d_options[k], OPTIONS[k])
         IN  IF got.exc # NoError THEN got
             ELSE options_loop(d_options, OPTIONS, k + 1, got.bits @@ options)

decode_options(d_status, d_option1, d_option2) ==
    options_loop(<<d_status, d_option1, d_option2>>,
                 <<STATUS, OPTION1, OPTION2>>, 1, <<>>)

\* lines 181-185: the entry of FUNCTION and the entry of its range table
resolve(d_function, d_range) ==
    IF LowNibble(d_function) \notin DOMAIN FUNCTION THEN Raise("KeyError", 181)
    ELSE LET function == FUNCTION[LowNibble(d_function)]
         IN  IF function[2].none THEN Raise("TypeError", 184)
             ELSE IF LowNibble(d_range) + 1 > Len(function[2].list)
               THEN Raise("IndexError", 184)
             ELSE [exc |-> NoError, mode |-> function[1],
                   m_range |-> function[2].list[LowNibble(d_range) + 1],
                   unit |-> function[3]]

\* lines 186-189: frequency with JUDGE set is the duty cycle
mode_override_keeps_range(resolved, options) ==
    IF resolved.mode = "frequency" /\ options["JUDGE"]
      THEN [resolved EXCEPT !.mode = "duty_cycle", !.unit = "%"]
      ELSE resolved

mode_override(resolved, options) ==
    IF resolved.mode = "frequency" /\ options["JUDGE"]
      THEN [resolved EXCEPT !.mode = "duty_cycle", !.unit = "%",
                            !.m_range = <<0, 1, "%">>]
      ELSE resolved

\* lines 191-197
current_type_prefers_DC(options) ==
    IF options["DC"] THEN [exc |-> NoError, current |-> "DC"]
    ELSE IF options["AC"] THEN [exc |-> NoError, current |-> "AC"]
    ELSE [exc |-> NoError, current |-> None]

current_type(options) ==
    IF options["AC"] /\ options["DC"] THEN Raise("ValueError", 193)
    ELSE IF options["DC"] THEN [exc |-> NoError, current |-> "DC"]
    ELSE IF options["AC"] THEN [exc |-> NoError, current |-> "AC"]
    ELSE [exc |-> NoError, current |-> None]

\* lines 199-201
operation_of_BATT(options) == IF options["BATT"] THEN "overload" ELSE "normal"

operation_of(options) == IF options["OL"] THEN "overload" ELSE "normal"

\* lines 203-206
mrange_of(options) == IF options["AUTO"] THEN "auto" ELSE "manual"

\* lines 219-223
peak_of(options) ==
    IF options["MAX"] THEN "max" ELSE IF options["MIN"] THEN "min" ELSE None

\* lines 225-231: the four digits, most significant first, and the sign
RECURSIVE digits_loop(_, _, _)
digits_loop(digits, i, display_value) ==
    IF i > 3 THEN display_value
    ELSE digits_loop(digits, i + 1, display_value + digits[i + 1] * Pow10(3 - i))

display_integer_unsigned(d_digits, options) ==
    digits_loop([j \in 1..4 |-> LowNibble(d_digits[j])], 0, 0)

display_integer(d_digits, options) ==
    LET digits == [j \in 1..4 |-> LowNibble(d_digits[j])]
        display_value == digits_loop(digits, 0, 0)
    IN  IF options["SIGN"] THEN -display_value ELSE display_value

\* line 232: Decimal(n) / 10**k.  The quotient is exact (at most 5 digits, the
\* context has 28) and decimal rounds it to the ideal exponent 0 as far as it
\* can: trailing zeros of the coefficient go until the exponent is 0.
RECURSIVE decimal_reduce(_, _)
decimal_reduce(coef, exp) ==
    IF exp < 0 /\ coef % 10 = 0 THEN decimal_reduce(coef \div 10, exp + 1)
    ELSE [coef |-> coef, exp |-> exp]

Abs(n) == IF n < 0 THEN -n ELSE n

decimal_divide(n, k) ==
    LET r == decimal_reduce(Abs(n), -k)
    IN  [kind |-> "Decimal", coef |-> IF n < 0 THEN -r.coef ELSE r.coef, exp |-> r.exp]

\* line 234: float(display_value) * m_range[0]
float_value(display_value, m_range) ==
    [kind |-> "float", coef |-> display_value.coef,
     exp |-> display_value.exp + m_range[1]]

\* the empty string that stands for a suppressed number (lines 237-238)
Empty == [kind |-> "str", coef |-> 0, exp |-> 0]

\* lines 236-251
build_results(resolved, current, options, display_value, value) ==
    LET operation == operation_of(options)
    IN  [value |-> IF operation # "normal" THEN Empty ELSE value,
         unit |-> resolved.unit,
         display_value |-> IF operation # "normal" THEN Empty ELSE display_value,
         display_unit |-> resolved.m_range[3],
         mode |-> resolved.mode,
         current |-> current,
         peak |-> peak_of(options),
         hold |-> options["HOLD"],
         range |-> mrange_of(options),
         operation |-> operation,
         battery_low |-> options["BATT"]]

\* lines 174-189: the range tuple parse goes on with (m_range), or the exception
m_range_of(packet_) ==
    LET got == decode_options(packet_[7], packet_[8], packet_[9])
        resolved == resolve(packet_[6], packet_[1])
    IN  IF got.exc # NoError THEN got
        ELSE IF resolved.exc # NoError THEN resolved
        ELSE mode_override(resolved, got.bits)

parse(packet_) ==
    LET d_range == packet_[1]
        d_digits == <<packet_[2], packet_[3], packet_[4], packet_[5]>>
        d_function == packet_[6]
        got == decode_options(packet_[7], packet_[8], packet_[9])
    IN  IF got.exc # NoError THEN got
        ELSE
        LET options == got.bits
            looked_up == resolve(d_function, d_range)
        IN  IF looked_up.exc # NoError THEN looked_up
            ELSE
            LET resolved == mode_override(looked_up, options)
                cur == current_type(options)
            IN  IF cur.exc # NoError THEN cur
                ELSE
                LET display_value == decimal_divide(display_integer(d_digits, options),
                                                    resolved.m_range[2])
                    value == float_value(display_value, resolved.m_range)
                IN  [exc |-> NoError,
                     results |-> build_results(resolved, cur.current, options,
                                               display_value, value)]

(***************************************************************************)
(* The output formatters.  A piece of text is a record: a literal, or the  *)
(* str() of a number; a line is the sequence of its pieces.                *)
(***************************************************************************)
Lit(s) == [piece |-> "literal", s |-> s, of |-> Empty]
Str(x) == [piece |-> "str", s |-> "", of |-> x]

\* lines 255-266: str has no append, line 265 raises AttributeError
output_readable(results_) ==
    LET line == IF results_.operation = "normal"
                  THEN <<Str(results_.display_value), Lit(" "), Lit(results_.display_unit)>>
                  ELSE <<Lit("-, the measurement is "), Lit(results_.operation), Lit("ed!")>>
    IN  IF results_.battery_low
          THEN Raise("AttributeError", 265)
          ELSE [exc |-> NoError, line |-> line]

\* lines 268-285
format_field(results_, field_name) ==
    IF field_name = "value"
      THEN IF results_.operation = "normal" THEN Str(results_.value) ELSE Lit("")
    ELSE IF field_name \in {"battery_low", "hold"}
      THEN IF results_[field_name] THEN Lit("1") ELSE Lit("0")
    ELSE IF results_[field_name] = None THEN Lit("")
    ELSE Lit(results_[field_name])

CSV_FIELDS == <<"value", "unit", "mode", "current", "operation", "peak",
                "battery_low", "hold">>

\* lines 289-295: the fields, to be joined by ";"
output_csv(results_) ==
    [k \in 1..Len(CSV_FIELDS) |-> format_field(results_, CSV_FIELDS[k])]

\* lines 361-365
plot_line(results_) ==
    IF results_.operation # "normal"
      THEN <<Lit(results_.mode), Lit(": "), Lit("overload")>>
      ELSE <<Lit(results_.mode), Lit(": "), Str(results_.value), Lit(results_.unit)>>

(***************************************************************************)
(* The inputs of the model                                                 *)
(***************************************************************************)
Nibble == 0..15
HighNibbles == 0..MaxHigh

\* the nine low nibbles, all under the high nibble h
Packet(h, d_range, d0, d1, d2, d3, d_function, d_status, d_option1, d_option2) ==
    <<16 * h + d_range, 16 * h + d0, 16 * h + d1, 16 * h + d2, 16 * h + d3,
      16 * h + d_function, 16 * h + d_status, 16 * h + d_option1,
      16 * h + d_option2>>

\* the digits: decimal ones, and the nibbles 10 and 15 that are not digits
DigitSamples == {0, 6, 9, 10, 15}

\* every range, function, status and option2 nibble on the reading 6000
HeaderPacket ==
    \E h \in HighNibbles, r \in Nibble, f \in Nibble, s \in Nibble, o2 \in Nibble :
        packet = Packet(h, r, 6, 0, 0, 0, f, s, 0, o2)

\* every option1 nibble
Option1Packet ==
    \E h \in HighNibbles, r \in {0, 5}, f \in {2, 4, 10, 11}, s \in {0, 1, 8},
       o1 \in Nibble, o2 \in {0, 1, 8, 12} :
        packet = Packet(h, r, 6, 0, 0, 0, f, s, o1, o2)

\* every reading
DigitPacket ==
    \E h \in HighNibbles, r \in 0..4, f \in {2, 11}, s \in {0, 1, 4, 12},
       d0 \in DigitSamples, d1 \in DigitSamples, d2 \in DigitSamples,
       d3 \in DigitSamples :
        packet = Packet(h, r, d0, d1, d2, d3, f, s, 0, 8)

\* a template with both kinds of fixed bit
TEMPLATE_FIXED == <<Fixed(1), Name("A"), Fixed(0), Name("B")>>

Templates == {STATUS, OPTION1, OPTION2, TEMPLATE_FIXED}

\* lines as the loop sees them after strip(): the device sends the nibbles
\* under the high nibble 3 ("0".."?")
AsciiLine(bytes) == [ascii |-> TRUE, bytes |-> bytes]

Lines ==
    {AsciiLine(Packet(3, 0, 6, 0, 0, 0, 11, 0, 0, 8)),
     AsciiLine(Packet(3, 1, 1, 2, 3, 4, 11, 4, 0, 4)),
     AsciiLine(Packet(3, 0, 6, 0, 0, 0, 11, 2, 0, 8)),
     AsciiLine(Packet(3, 0, 6, 0, 0, 0, 11, 1, 0, 8)),
     AsciiLine(Packet(3, 0, 6, 0, 0, 0, 11, 0, 0, 12)),
     AsciiLine(Packet(3, 0, 6, 0, 0, 0, 10, 0, 0, 8)),
     AsciiLine(<<48, 54, 48>>),
     AsciiLine(<<48, 54, 48, 48, 48, 59, 48, 48, 56, 48>>),
     AsciiLine(<<>>),
     [ascii |-> FALSE, bytes |-> <<48, 54, 48, 48, 48, 59, 48, 48, 200>>]}

Idle == [kind |-> "none", decoded |-> FALSE, raised |-> NoError]

(***************************************************************************)
(* Spec: parse on one packet, then a formatter on its result               *)
(***************************************************************************)
Init ==
    /\ pc = "parse"
    /\ (HeaderPacket \/ Option1Packet \/ DigitPacket)
    /\ parsed = Unbound
    /\ text = Unbound
    /\ int_type = 0 /\ template = STATUS /\ bits = Unbound
    /\ mode = "csv" /\ file_name = Unbound /\ results = Unbound
    /\ lines = <<>> /\ written = <<>> /\ log = <<>> /\ last = Idle

Parse ==
    /\ pc = "parse"
    /\ parsed' = parse(packet)
    /\ pc' = "parsed"
    /\ UNCHANGED <<packet, text, int_type, template, bits, mode, file_name,
                   results, lines, written, log, last>>

OutputReadable ==
    /\ pc = "parsed"
    /\ parsed.exc = NoError
    /\ text' = output_readable(parsed.results)
    /\ pc' = "readable"
    /\ UNCHANGED <<packet, parsed, int_type, template, bits, mode, file_name,
                   results, lines, written, log, last>>

OutputCsv ==
    /\ pc = "parsed"
    /\ parsed.exc = NoError
    /\ text' = [exc |-> NoError, line |-> output_csv(parsed.results)]
    /\ pc' = "csv"
    /\ UNCHANGED <<packet, parsed, int_type, template, bits, mode, file_name,
                   results, lines, written, log, last>>

Next == Parse \/ OutputReadable \/ OutputCsv

Spec == Init /\ [][Next]_vars

(***************************************************************************)
(* SpecBits: get_bits on one byte and one template                         *)
(***************************************************************************)
InitBits ==
    /\ pc = "get_bits"
    /\ int_type \in 0..255
    /\ template \in Templates
    /\ bits = Unbound
    /\ packet = <<>> /\ parsed = Unbound /\ text = Unbound
    /\ mode = "csv" /\ file_name = Unbound /\ results = Unbound
    /\ lines = <<>> /\ written = <<>> /\ log = <<>> /\ last = Idle

GetBits ==
    /\ pc = "get_bits"
    /\ bits' = get_bits(int_type, template)
    /\ pc' = "got_bits"
    /\ UNCHANGED <<packet, parsed, text, int_type, template, mode, file_name,
                   results, lines, written, log, last>>

NextBits == GetBits

SpecBits == InitBits /\ [][NextBits]_vars

(***************************************************************************)
(* SpecMain: the read loop of main (lines 320-375).  The clock read of     *)
(* line 347 is the number of lines read so far.                            *)
(***************************************************************************)
Modes == {"csv", "plot", "readable"}

\* lines 320-337: file_name is assigned in mode csv only ('chch' is not a
\* choice of --mode); the header is the first record of the csv file
InitMain ==
    /\ pc = "loop"
    /\ mode \in Modes
    /\ file_name = IF mode = "csv" THEN "measurement.csv" ELSE Unbound
    /\ written = IF mode = "csv" THEN <<[kind |-> "header", timestamp |-> 0,
                                          line |-> [k \in 1..Len(CSV_FIELDS) |->
                                                      Lit(CSV_FIELDS[k])]]>>
                 ELSE <<>>
    /\ results = Unbound
    /\ lines = <<>> /\ log = <<>> /\ last = Idle
    /\ packet = <<>> /\ parsed = Unbound /\ text = Unbound
    /\ int_type = 0 /\ template = STATUS /\ bits = Unbound

NotMain == <<packet, parsed, text, int_type, template, bits>>

\* lines 339-340
EndOfInput ==
    /\ pc = "loop"
    /\ pc' = "exit"
    /\ last' = [kind |-> "eof", decoded |-> FALSE, raised |-> NoError]
    /\ UNCHANGED <<mode, file_name, results, lines, written, log>>
    /\ UNCHANGED NotMain

\* lines 342-346
NotAscii ==
    /\ pc = "loop" /\ Len(lines) < MaxLines
    /\ \E line \in Lines :
        /\ ~line.ascii
        /\ lines' = Append(lines, line)
        /\ log' = Append(log, [warning |-> "Not an ASCII input line, ignoring",
                               timestamp |-> Len(lines) + 1])
        /\ last' = [kind |-> "not_ascii", decoded |-> FALSE, raised |-> NoError]
    /\ UNCHANGED <<pc, mode, file_name, results, written>>
    /\ UNCHANGED NotMain

\* lines 354-371, on the value of the local results; an exception of the
\* body ends the loop
Emit(timestamp, results_) ==
    IF results_ = Unbound
      THEN Raise("UnboundLocalError", IF mode = "csv" THEN 355
                                       ELSE IF mode = "readable" THEN 358 ELSE 361)
    ELSE IF mode = "csv"
      THEN [exc |-> NoError,
            record |-> [kind |-> "csv", timestamp |-> timestamp,
                        line |-> output_csv(results_)]]
    ELSE IF mode = "readable"
      THEN LET line == output_readable(results_)
           IN  IF line.exc # NoError THEN line
               ELSE [exc |-> NoError,
                     record |-> [kind |-> "readable", timestamp |-> timestamp,
                                 line |-> line.line]]
    ELSE IF file_name = Unbound THEN Raise("UnboundLocalError", 366)
    ELSE [exc |-> NoError,
          record |-> [kind |-> "plot", timestamp |-> timestamp,
                      line |-> plot_line(results_)]]

\* lines 349-371: a line of 9 bytes
Packet9 ==
    /\ pc = "loop" /\ Len(lines) < MaxLines
    /\ \E line \in Lines :
        /\ line.ascii /\ Len(line.bytes) = 9
        /\ LET timestamp == Len(lines) + 1
               got == parse(line.bytes)
               results_ == IF got.exc = NoError THEN got.results ELSE results
               out == Emit(timestamp, results_)
           IN  /\ lines' = Append(lines, line)
               /\ results' = results_
               /\ log' = IF got.exc = NoError THEN log
                         ELSE Append(log, [warning |-> "Error packet from multimeter",
                                           timestamp |-> timestamp])
               /\ written' = IF out.exc = NoError THEN Append(written, out.record)
                             ELSE written
               /\ pc' = IF out.exc = NoError THEN "loop" ELSE "crashed"
               /\ last' = [kind |-> "packet", decoded |-> got.exc = NoError,
                           raised |-> out.exc]
    /\ UNCHANGED <<mode, file_name>>
    /\ UNCHANGED NotMain

\* lines 372-373
UnknownPacket ==
    /\ pc = "loop" /\ Len(lines) < MaxLines
    /\ \E line \in Lines :
        /\ line.ascii /\ Len(line.bytes) # 9 /\ Len(line.bytes) # 0
        /\ lines' = Append(lines, line)
        /\ log' = Append(log, [warning |-> "Unknown packet from multimeter",
                               timestamp |-> Len(lines) + 1])
        /\ last' = [kind |-> "unknown_packet", decoded |-> FALSE, raised |-> NoError]
    /\ UNCHANGED <<pc, mode, file_name, results, written>>
    /\ UNCHANGED NotMain

\* lines 374-375
NotAResponse ==
    /\ pc = "loop" /\ Len(lines) < MaxLines
    /\ \E line \in Lines :
        /\ line.ascii /\ Len(line.bytes) = 0
        /\ lines' = Append(lines, line)
        /\ log' = Append(log, [warning |-> "Not a response from the multimeter",
                               timestamp |-> Len(lines) + 1])
        /\ last' = [kind |-> "not_a_response", decoded |-> FALSE, raised |-> NoError]
    /\ UNCHANGED <<pc, mode, file_name, results, written>>
    /\ UNCHANGED NotMain

NextMain == EndOfInput \/ NotAscii \/ Packet9 \/ UnknownPacket \/ NotAResponse

SpecMain == InitMain /\ [][NextMain]_vars

(***************************************************************************)
(* The packet of the state, read bit by bit                                *)
(***************************************************************************)
Parsed == pc # "parse" /\ Len(packet) = 9

OL == packet[7] % 2 = 1
SIGN == (packet[7] \div 4) % 2 = 1
JUDGE == (packet[7] \div 8) % 2 = 1
AC == (packet[9] \div 4) % 2 = 1
DC == (packet[9] \div 8) % 2 = 1
FixedZeroSet == packet[8] % 2 = 1 \/ packet[9] % 2 = 1
FunctionCode == packet[6] % 16
RangeIndex == packet[1] % 16

\* the number of ranges of each function code that has a range table
RangeCount ==
    (1 :> 1) @@ (2 :> 5) @@ (3 :> 6) @@ (5 :> 1) @@ (6 :> 7) @@ (9 :> 1)
    @@ (11 :> 5) @@ (13 :> 2) @@ (14 :> 1) @@ (15 :> 2)

\* no step before the current-type resolution fails
ResolvesRange ==
    /\ ~FixedZeroSet
    /\ FunctionCode \in DOMAIN RangeCount
    /\ RangeIndex < RangeCount[FunctionCode]

\* the reading of the four digit nibbles, most significant first
Reading ==
    (packet[2] % 16) * 1000 + (packet[3] % 16) * 100 + (packet[4] % 16) * 10
    + (packet[5] % 16)

(***************************************************************************)
(* C1                                                                      *)
(***************************************************************************)
\* C1 as stated: every packet with the AC and the DC bit set fails with the
\* conflicting-current-type error (the ValueError of line 193), whatever the
\* other bytes and bits are.
C1_ConflictWhateverTheRest ==
    (Parsed /\ AC /\ DC) => parsed = Raise("ValueError", 193)

\* C1 amended: a packet with the AC and the DC bit set always fails; the error
\* is the conflicting-current-type one exactly when no earlier step fails (the
\* fixed-zero bits are clear, the function code has a range table and the
\* range nibble is an index of it), otherwise it is the earlier step's error.
C1_ConflictUnlessEarlierFailure ==
    (Parsed /\ AC /\ DC) =>
        /\ parsed.exc # NoError
        /\ parsed = Raise("ValueError", 193) <=> ResolvesRange
        /\ FixedZeroSet => parsed = Raise("ValueError", 52)
        /\ (~FixedZeroSet /\ FunctionCode \notin DOMAIN RangeCount) =>
              parsed \in {Raise("KeyError", 181), Raise("TypeError", 184)}
        /\ (~FixedZeroSet /\ FunctionCode \in DOMAIN RangeCount /\ ~ResolvesRange) =>
              parsed = Raise("IndexError", 184)

C1_Witness ==
    /\ Parsed /\ AC /\ DC /\ OL /\ packet[1] >= 16
    /\ parsed = Raise("ValueError", 193)

(***************************************************************************)
(* C3                                                                      *)
(***************************************************************************)
\* C3: a Measurement returned for a packet with the OL bit set has operation
\* "overload" and neither value nor display_value, whatever the digits; and a
\* Measurement lacks value or display_value only when it is an overload.
C3_OverloadSuppressesNumbers ==
    (Parsed /\ parsed.exc = NoError) =>
        /\ OL => /\ parsed.results.operation = "overload"
                 /\ parsed.results.value = Empty
                 /\ parsed.results.display_value = Empty
        /\ (parsed.results.value = Empty \/ parsed.results.display_value = Empty)
              => parsed.results.operation = "overload"
        /\ ~OL => /\ parsed.results.value.kind = "float"
                  /\ parsed.results.display_value.kind = "Decimal"

C3_Witness ==
    /\ Parsed /\ OL /\ Reading = 9999 + 6 * 1111 /\ parsed.exc = NoError
    /\ parsed.results.operation = "overload"
    /\ parsed.results.value = Empty

(***************************************************************************)
(* C4                                                                      *)
(***************************************************************************)
\* C4: a packet with bit 0 of option1_byte or of option2_byte set fails with
\* the invalid-status-bits error (the ValueError of get_bits, line 52),
\* whatever the other bytes are.
C4_FixedZeroBitFailsFirst ==
    (Parsed /\ FixedZeroSet) => parsed = Raise("ValueError", 52)

C4_Witness ==
    /\ Parsed /\ packet[8] % 2 = 1 /\ AC /\ DC /\ FunctionCode = 10
    /\ parsed = Raise("ValueError", 52)

(***************************************************************************)
(* C5                                                                      *)
(***************************************************************************)
DutyCycleCase == Parsed /\ FunctionCode = 2 /\ JUDGE /\ ~FixedZeroSet /\ ~(AC /\ DC)

DutyCycleOutcome ==
    /\ parsed.exc = NoError
    /\ parsed.results.mode = "duty_cycle"
    /\ parsed.results.unit = "%"
    /\ parsed.results.display_unit = "%"
    /\ m_range_of(packet).m_range = <<0, 1, "%">>
    /\ ~OL => /\ parsed.results.display_value.exp \in {-1, 0}
              /\ parsed.results.display_value.coef
                   * Pow10(1 + parsed.results.display_value.exp)
                 = IF SIGN THEN -Reading ELSE Reading
              /\ parsed.results.value.coef = parsed.results.display_value.coef
              /\ parsed.results.value.exp = parsed.results.display_value.exp

\* C5 as stated: frequency with JUDGE set is decoded as the duty cycle in %
\* with multiplier 1 and decimal position 1, for every range nibble 0..15.
C5_DutyCycleForEveryRange == DutyCycleCase => DutyCycleOutcome

\* C5 amended: frequency with JUDGE set is decoded as the duty cycle in % with
\* multiplier 1 and decimal position 1 for every range nibble 0..4, the indices
\* of RANGE_FREQUENCY, whichever it is; for the range nibbles 5..15 parse fails
\* with IndexError at the range lookup, which precedes the override.
C5_DutyCycleForEveryListedRange ==
    DutyCycleCase =>
        IF RangeIndex <= 4 THEN DutyCycleOutcome
        ELSE parsed = Raise("IndexError", 184)

C5_Witness ==
    /\ DutyCycleCase /\ RangeIndex = 4 /\ ~OL /\ Reading = 6000
    /\ parsed.exc = NoError
    /\ parsed.results.mode = "duty_cycle"
    /\ parsed.results.display_value = [kind |-> "Decimal", coef |-> 600, exp |-> 0]

(***************************************************************************)
(* C6                                                                      *)
(***************************************************************************)
\* C6: for a packet decoded with operation "normal", display_value times
\* 10^decimal_point_position is the integer d0*1000 + d1*100 + d2*10 + d3 of
\* the low nibbles of the digit bytes, negated exactly when SIGN is set.
C6_DisplayValueRoundTrips ==
    (Parsed /\ parsed.exc = NoError /\ parsed.results.operation = "normal") =>
        LET dp == m_range_of(packet).m_range[2]
            display_value == parsed.results.display_value
        IN  /\ display_value.kind = "Decimal"
            /\ dp + display_value.exp >= 0
            /\ display_value.coef * Pow10(dp + display_value.exp)
               = IF SIGN THEN -Reading ELSE Reading

C6_Witness ==
    /\ Parsed /\ parsed.exc = NoError /\ parsed.results.operation = "normal"
    /\ SIGN /\ packet[2] >= 16 /\ Reading = 10000 + 600 + 90 + 15
    /\ m_range_of(packet).m_range[2] = 2
    /\ parsed.results.display_value = [kind |-> "Decimal", coef |-> -10705, exp |-> -2]

(***************************************************************************)
(* C7                                                                      *)
(***************************************************************************)
\* bit i of the byte given to get_bits
BitOfByte(i) ==
    IF i = 0 THEN int_type % 2 = 1
    ELSE IF i = 1 THEN (int_type \div 2) % 2 = 1
    ELSE IF i = 2 THEN (int_type \div 4) % 2 = 1
    ELSE (int_type \div 8) % 2 = 1

LiteralMismatch ==
    \E i \in 0..3 : /\ template[4 - i].fixed
                    /\ template[4 - i].bit # (IF BitOfByte(i) THEN 1 ELSE 0)

\* C7: get_bits returns the mapping of each named slot template[3-i] to bit i
\* of the byte, fails exactly when a fixed slot differs from its bit, and
\* ignores the bits 4..7; on STATUS, OPTION1 and OPTION2 this is the layout
\* of the bytes 6, 7 and 8.
C7_GetBitsMapsSlotsToBits ==
    pc = "got_bits" =>
        /\ bits.exc # NoError <=> LiteralMismatch
        /\ LiteralMismatch => bits = Raise("ValueError", 52)
        /\ ~LiteralMismatch =>
              /\ DOMAIN bits.bits = {template[4 - i].name : i \in {k \in 0..3 : ~template[4 - k].fixed}}
              /\ \A i \in 0..3 : ~template[4 - i].fixed =>
                    bits.bits[template[4 - i].name] = BitOfByte(i)
        /\ bits = get_bits(int_type % 16, template)
        /\ template = STATUS =>
              bits.bits = [OL |-> BitOfByte(0), BATT |-> BitOfByte(1),
                           SIGN |-> BitOfByte(2), JUDGE |-> BitOfByte(3)]
        /\ (template = OPTION1 /\ ~BitOfByte(0)) =>
              bits.bits = [MIN |-> BitOfByte(1), MAX |-> BitOfByte(2),
                           HOLD |-> BitOfByte(3)]
        /\ (template = OPTION2 /\ ~BitOfByte(0)) =>
              bits.bits = [AUTO |-> BitOfByte(1), AC |-> BitOfByte(2),
                           DC |-> BitOfByte(3)]

C7_Witness ==
    /\ pc = "got_bits" /\ template = OPTION2 /\ int_type = 200
    /\ bits = [exc |-> NoError, bits |-> [AUTO |-> FALSE, AC |-> FALSE, DC |-> TRUE]]

(***************************************************************************)
(* C8                                                                      *)
(***************************************************************************)
\* C8: for a packet of function code 0x04 (temperature, no range table) parse
\* returns no Measurement: it fails, whatever the other bytes are.
C8_TemperatureNeverDecodes ==
    (Parsed /\ FunctionCode = 4) =>
        /\ parsed.exc # NoError
        /\ parsed = IF FixedZeroSet THEN Raise("ValueError", 52)
                    ELSE Raise("TypeError", 184)

C8_Witness ==
    /\ Parsed /\ FunctionCode = 4 /\ RangeIndex = 0 /\ ~AC /\ DC
    /\ parsed = Raise("TypeError", 184)

(***************************************************************************)
(* C9                                                                      *)
(***************************************************************************)
\* C9: output_readable returns a line for every Measurement: the display value
\* and unit when the operation is "normal", the "-, the measurement is
\* <operation>ed!" text otherwise, with a battery warning appended when
\* battery_low is true; it never raises.
C9_ReadableAlwaysReturnsALine ==
    pc = "readable" =>
        LET m == parsed.results
            body == IF m.operation = "normal"
                      THEN <<Str(m.display_value), Lit(" "), Lit(m.display_unit)>>
                      ELSE <<Lit("-, the measurement is "), Lit(m.operation), Lit("ed!")>>
        IN  /\ text.exc = NoError
            /\ ~m.battery_low => text.line = body
            /\ m.battery_low => /\ Len(text.line) = Len(body) + 1
                                /\ SubSeq(text.line, 1, Len(body)) = body

(***************************************************************************)
(* C2, C10                                                                 *)
(***************************************************************************)
\* C2: a line that is not 9 bytes long, or whose decode fails, is logged and
\* skipped: the loop goes on with the next line and the process does not end
\* because of that line.
C2_BadLineIsLoggedAndSkipped ==
    (last.kind \in {"unknown_packet", "not_a_response"}
       \/ (last.kind = "packet" /\ ~last.decoded)) =>
        /\ pc = "loop"
        /\ last.raised = NoError
        /\ Len(log) > 0 /\ log[Len(log)].timestamp = Len(lines)

\* the record main writes for a Measurement in the mode of the run
Rendering(results_) ==
    IF mode = "csv" THEN output_csv(results_)
    ELSE IF mode = "readable" THEN output_readable(results_).line
    ELSE plot_line(results_)

\* C10: every record written is the rendering of the Measurement decoded from
\* the line just read: a line whose decode fails produces no record and the
\* Measurement of an earlier line is not emitted again.
C10_RecordsRenderTheLineJustRead ==
    \A k \in 1..Len(written) :
        written[k].kind # "header" =>
            LET got == parse(lines[written[k].timestamp].bytes)
            IN  /\ got.exc = NoError
                /\ written[k].line = Rendering(got.results)

====
